---- MODULE Spec2Model ----
(***************************************************************************)
(* Model of the daily ROI payout job of pizzanicks/roi-cron-job.           *)
(*                                                                         *)
(* The repository holds successive drafts of one routine:                  *)
(*   src/roiTask.js            runRoiTaskNow, the latest draft             *)
(*   src/unnamed/part_001      runRoiTaskNow, the "Updated Version"        *)
(*   src/unnamed/part_000      runRoiTaskNow, two older drafts             *)
(*   src/index.js              runDailyROIIncrease, the scheduled draft    *)
(*                                                                         *)
(* Numbers.  JavaScript numbers are modelled as integers in fixed point:   *)
(* a principal (activePlan.amount) is counted in cents, a rate             *)
(* (activePlan.roiPercent, a fraction) in thousandths, and therefore a     *)
(* payout amount and a wallet balance in thousandths of a cent.  NaN is a  *)
(* distinguished value that every arithmetic operation propagates.         *)
(***************************************************************************)
EXTENDS Integers, Sequences, FiniteSets, TLC

\* ------------------------------------------------------------------ bounds
MaxRuns == 2
MaxFailures == 1
MaxDay == 1
LiveDepth == 3

\* ------------------------------------------------------- program constants
CYCLE_LENGTH == 7

\* --------------------------------------------------------- JavaScript values
NaN == -999999
Undef == "undefined"

IsNaN(x) == x = NaN
Add(a, b) == IF IsNaN(a) \/ IsNaN(b) THEN NaN ELSE a + b
Mul(a, b) == IF IsNaN(a) \/ IsNaN(b) THEN NaN ELSE a * b

\* A stored scalar that the code reads defensively: a number, a string (val is
\* what parseFloat makes of it, NaN when it makes nothing) or undefined.
Num(n) == [type |-> "number", val |-> n]
Str(n) == [type |-> "string", val |-> n]
Missing == [type |-> "undefined", val |-> 0]

\* parseFloat(x): of a number the number, of a string its parse, else NaN
ParseFloat(raw) == IF raw.type = "undefined" THEN NaN ELSE raw.val

\* x || '0' : a falsy x (undefined, 0, NaN, "") is replaced by the string '0'
OrZeroString(raw) ==
    IF raw.type = "undefined" \/ (raw.type = "number" /\ (raw.val = 0 \/ IsNaN(raw.val)))
    THEN Str(0) ELSE raw

\* x rounded to a multiple of unit, half away from zero; NaN stays NaN
RoundTo(x, unit) ==
    IF IsNaN(x) THEN NaN
    ELSE IF x >= 0 THEN ((2 * x + unit) \div (2 * unit)) * unit
    ELSE -(((2 * (-x) + unit) \div (2 * unit)) * unit)

\* A money amount (thousandths of a cent) rounded to 2 decimals (cents)
Round2(x) == RoundTo(x, 1000)

\* ----------------------------------------------------------------- the store
DocIds == {"d1", "d2"}
DocOrder == <<"d1", "d2">>
UserIds == {"u1", "u2"}
NoUser == "none"
Procs == {"p1", "p2"}

VARIABLES
    program,              \* which draft of the job is running
    overlap,              \* whether invocations may overlap (no mutual exclusion)
    budget,               \* how many invocations the scheduler makes in all
    INVESTMENT,           \* collection INVESTMENT: DocIds -> document
    INVESTMENT0,          \* the collection as the first invocation found it
    USERS,                \* collection USERS: UserIds -> profile
    pc,                   \* per invocation: "idle", "loop" or "user"
    snapshot,             \* per invocation: the documents fetched at its start
    idx,                  \* per invocation: position in snapshot.docs
    pending,              \* per invocation: the userProfileUpdates still to be awaited
    decided,              \* per invocation: what its latest run decided, per record
    previous,             \* per invocation: outcome and decisions of the run before the latest
    day,                  \* the calendar day (dayjs().format('YYYY-MM-DD'))
    tick,                 \* the millisecond clock (new Date())
    runs,                 \* invocations started so far
    failures,             \* store calls that have thrown so far
    outcome,              \* per invocation: how its latest run ended
    doneDay,              \* the day on which the latest complete run ended
    writes,               \* successful update calls so far, per document
    users,                \* index.js: collection users
    investmentPlans,      \* index.js: collection investmentPlans
    clock,                \* index.js: new Date(), in minutes
    dpc,                  \* index.js: "idle", "plans" (plans fetched) or "scan"
    fetched,              \* index.js: the plans and the active users fetched
    lastBatch             \* index.js: the batch of the latest finished scan, and its time

vars == <<program, overlap, budget, INVESTMENT, INVESTMENT0, USERS, pc, snapshot, idx, pending, decided, previous,
          day, tick, runs, failures, outcome, doneDay, writes,
          users, investmentPlans, clock, dpc, fetched, lastBatch>>

jobVars == <<program, overlap, budget, INVESTMENT, INVESTMENT0, USERS, pc, snapshot, idx, pending, decided, previous,
             day, tick, outcome, doneDay, writes>>
dailyVars == <<users, investmentPlans, clock, dpc, fetched, lastBatch>>

\* --------------------------------------------------------- Firestore writes
\* The three field-update semantics of DocumentReference.update
Set(v) == [op |-> "set", v |-> v]
Increment(n) == [op |-> "increment", v |-> n]
ArrayUnion(e) == [op |-> "arrayUnion", v |-> e]

Has(upd, f) == f \in DOMAIN upd

\* A numeric field (stored raw value) after a write: increment adds to a stored
\* number and replaces anything that is not a number by the operand.
WriteRaw(cur, u) ==
    IF u.op = "increment"
    THEN (IF cur.type = "number" THEN Num(Add(cur.val, u.v)) ELSE Num(u.v))
    ELSE Num(u.v)

\* A plain number field after a write
WriteNum(cur, u) == IF u.op = "increment" THEN Add(cur, u.v) ELSE u.v

\* arrayUnion appends the element unless the array already holds an equal one
WriteArray(cur, u) ==
    IF \E i \in 1..Len(cur) : cur[i] = u.v THEN cur ELSE Append(cur, u.v)

\* investmentDocRef.update(upd): a field-level merge into the INVESTMENT document
UpdateInvestment(doc, upd) ==
    [doc EXCEPT
        !.hasActivePlan = IF Has(upd, "hasActivePlan") THEN upd["hasActivePlan"].v ELSE @,
        !.payoutLogs = IF Has(upd, "payoutLogs") THEN WriteArray(@, upd["payoutLogs"]) ELSE @,
        !.walletBal = IF Has(upd, "walletBal") THEN WriteNum(@, upd["walletBal"]) ELSE @,
        !.activePlan.daysCompleted =
            IF Has(upd, "activePlan.daysCompleted")
            THEN WriteRaw(@, upd["activePlan.daysCompleted"]) ELSE @,
        !.activePlan.status =
            IF Has(upd, "activePlan.status") THEN upd["activePlan.status"].v ELSE @,
        !.activePlan.isActive =
            IF Has(upd, "activePlan.isActive") THEN upd["activePlan.isActive"].v ELSE @,
        !.activePlan.action =
            IF Has(upd, "activePlan.action") THEN upd["activePlan.action"].v ELSE @]

\* userProfileRef.update(upd): a field-level merge into the USERS profile
UpdateUser(prof, upd) ==
    [prof EXCEPT
        !.walletBalance = IF Has(upd, "walletBalance") THEN WriteNum(@, upd["walletBalance"]) ELSE @,
        !.currentPlanDaysCompleted =
            IF Has(upd, "currentPlanDaysCompleted") THEN upd["currentPlanDaysCompleted"].v ELSE @,
        !.currentPlanRoiPercentage =
            IF Has(upd, "currentPlanRoiPercentage") THEN upd["currentPlanRoiPercentage"].v ELSE @,
        !.lastRoiPaymentDate =
            IF Has(upd, "lastRoiPaymentDate") THEN upd["lastRoiPaymentDate"].v ELSE @,
        !.hasActiveInvestments =
            IF Has(upd, "hasActiveInvestments") THEN upd["hasActiveInvestments"].v ELSE @,
        !.isInvestmentActive =
            IF Has(upd, "isInvestmentActive") THEN upd["isInvestmentActive"].v ELSE @]

NoUpdate == <<>>

\* FieldValue.increment(NaN) on the field f: the SDK's validation of the operand
\* may refuse the update with a throw
RefusesNaN(upd, f) == Has(upd, f) /\ upd[f].op = "increment" /\ IsNaN(upd[f].v)

\* ------------------------------------------- src/roiTask.js: runRoiTaskNow
\* One record of the snapshot is decided by the synchronous code between two
\* awaits.  d is doc.data(), today the calendar day, now the clock.

\* lines 59-76: the userId and the activePlan map must be there
IsValid(d) == d.userId # NoUser /\ d.activePlan.kind = "object"

\* the filter without the test of activePlan.isActive
PassesGate_TopFlagOnly(d) == d.hasActivePlan

\* lines 78-82: the filter that lets a record through
PassesGate(d) == d.hasActivePlan /\ d.activePlan.isActive

\* lines 86-96: daysCompleted as a number, 0 when it is none
currentDaysCompletedInPlan(plan) ==
    LET rawDaysCompleted == plan.daysCompleted IN
    IF rawDaysCompleted.type = "number" /\ ~IsNaN(rawDaysCompleted.val)
    THEN rawDaysCompleted.val
    ELSE IF rawDaysCompleted.type = "string" /\ ~IsNaN(ParseFloat(rawDaysCompleted))
    THEN ParseFloat(rawDaysCompleted)
    ELSE 0

\* line 100
parsedRoiPercent(plan) == ParseFloat(OrZeroString(plan.roiPercent))

\* line 102: the amount is credited as computed, without rounding
roiAmount(plan) ==
    Mul(plan.amount, IF IsNaN(parsedRoiPercent(plan)) THEN 0 ELSE parsedRoiPercent(plan))

\* lines 111-116
newPayoutLogEntry(plan, today, now) ==
    [date |-> today, amount |-> roiAmount(plan), status |-> "paid", timestamp |-> now]

\* the cycle end tested with > instead of >=
investmentUpdates_LateCompletion(d, today, now) ==
    LET plan == d.activePlan
        newDaysCompleted == currentDaysCompletedInPlan(plan) + 1
        base == ("activePlan.daysCompleted" :> Increment(1))
                @@ ("payoutLogs" :> ArrayUnion(newPayoutLogEntry(plan, today, now)))
    IN  IF newDaysCompleted > CYCLE_LENGTH
        THEN ("activePlan.isActive" :> Set(FALSE))
             @@ ("activePlan.status" :> Set("completed"))
             @@ ("hasActivePlan" :> Set(FALSE))
             @@ base
        ELSE base

\* the restart that leaves activePlan.action as it is
investmentUpdates_KeepsRestart(d, today, now) ==
    LET plan == d.activePlan
        newDaysCompleted == currentDaysCompletedInPlan(plan) + 1
        base == ("activePlan.daysCompleted" :> Increment(1))
                @@ ("payoutLogs" :> ArrayUnion(newPayoutLogEntry(plan, today, now)))
    IN  IF newDaysCompleted >= CYCLE_LENGTH
        THEN IF plan.action = "restart"
             THEN ("activePlan.daysCompleted" :> Set(0))
                  @@ ("activePlan.status" :> Set("active"))
                  @@ ("activePlan.isActive" :> Set(TRUE))
                  @@ base
             ELSE ("activePlan.isActive" :> Set(FALSE))
                  @@ ("activePlan.status" :> Set("completed"))
                  @@ ("hasActivePlan" :> Set(FALSE))
                  @@ base
        ELSE base

\* lines 119-122 and the overrides of lines 134-149
investmentUpdates(d, today, now) ==
    LET plan == d.activePlan
        newDaysCompleted == currentDaysCompletedInPlan(plan) + 1
        base == ("activePlan.daysCompleted" :> Increment(1))
                @@ ("payoutLogs" :> ArrayUnion(newPayoutLogEntry(plan, today, now)))
    IN  IF newDaysCompleted >= CYCLE_LENGTH
        THEN IF plan.action = "restart"
             THEN ("activePlan.daysCompleted" :> Set(0))
                  @@ ("activePlan.status" :> Set("active"))
                  @@ ("activePlan.isActive" :> Set(TRUE))
                  @@ ("activePlan.action" :> Set("active"))
                  @@ base
             ELSE ("activePlan.isActive" :> Set(FALSE))
                  @@ ("activePlan.status" :> Set("completed"))
                  @@ ("hasActivePlan" :> Set(FALSE))
                  @@ base
        ELSE base

\* lines 125-131 and the overrides of lines 143-153
userProfileUpdates(d, today) ==
    LET plan == d.activePlan
        newDaysCompleted == currentDaysCompletedInPlan(plan) + 1
        base == ("walletBalance" :> Increment(roiAmount(plan)))
                @@ ("currentPlanDaysCompleted" :> Set(newDaysCompleted))
                @@ ("currentPlanRoiPercentage" :> Set(parsedRoiPercent(plan)))
                @@ ("lastRoiPaymentDate" :> Set(today))
                @@ ("hasActiveInvestments" :> Set(TRUE))
    IN  IF newDaysCompleted >= CYCLE_LENGTH
        THEN IF plan.action = "restart"
             THEN ("currentPlanDaysCompleted" :> Set(0))
                  @@ ("hasActiveInvestments" :> Set(TRUE))
                  @@ base
             ELSE ("currentPlanDaysCompleted" :> Set(newDaysCompleted))
                  @@ ("hasActiveInvestments" :> Set(FALSE))
                  @@ base
        ELSE base

\* lines 169-174
correctionInvestment ==
    ("activePlan.isActive" :> Set(FALSE))
    @@ ("activePlan.status" :> Set("completed"))
    @@ ("hasActivePlan" :> Set(FALSE))

\* lines 175-178
correctionProfile(d) ==
    ("hasActiveInvestments" :> Set(FALSE))
    @@ ("currentPlanDaysCompleted" :> Set(currentDaysCompletedInPlan(d.activePlan)))

\* What the loop body does with one record: "skip" (continue), "pay" or
\* "correct", with the update of the INVESTMENT document (inv), the update of
\* the USERS profile that follows it (usr, when profile), and whether the
\* update carries a value the SDK's validation may refuse (refusable).
Skipped == [kind |-> "skip", inv |-> NoUpdate, usr |-> NoUpdate, profile |-> FALSE,
            refusable |-> FALSE]
Decision(kind, inv, usr) ==
    [kind |-> kind, inv |-> inv, usr |-> usr, profile |-> TRUE, refusable |-> FALSE]

\* the payout branch taken up to and including day 7
Decide_PayAtSeven(d, today, now) ==
    IF ~IsValid(d) \/ ~PassesGate(d)
    THEN Skipped
    ELSE IF currentDaysCompletedInPlan(d.activePlan) <= CYCLE_LENGTH
    THEN Decision("pay", investmentUpdates(d, today, now), userProfileUpdates(d, today))
    ELSE Decision("correct", correctionInvestment, correctionProfile(d))

\* lines 54-181
Decide(d, today, now) ==
    IF ~IsValid(d) \/ ~PassesGate(d)
    THEN Skipped
    ELSE IF currentDaysCompletedInPlan(d.activePlan) < CYCLE_LENGTH
    THEN Decision("pay", investmentUpdates(d, today, now), userProfileUpdates(d, today))
    ELSE IF d.hasActivePlan \/ d.activePlan.isActive
    THEN Decision("correct", correctionInvestment, correctionProfile(d))
    ELSE Skipped

\* ---------------------------------- src/unnamed/part_001: runRoiTaskNow
\* lines 48-59
IsValid_p001(d) == d.userId # NoUser /\ d.activePlan.kind = "object"

\* lines 65-68
PassesGate_p001(d) == d.hasActivePlan /\ d.activePlan.isActive

\* lines 72-82: a stored number is taken as it is, NaN included
currentDaysCompletedInPlan_p001(plan) ==
    LET rawDaysCompleted == plan.daysCompleted IN
    IF rawDaysCompleted.type = "number"
    THEN rawDaysCompleted.val
    ELSE IF rawDaysCompleted.type = "string" /\ ~IsNaN(ParseFloat(rawDaysCompleted))
    THEN ParseFloat(rawDaysCompleted)
    ELSE 0

\* line 88
parsedRoiPercent_p001(plan) == ParseFloat(OrZeroString(plan.roiPercent))

\* line 90: no guard against NaN
roiAmount_p001(plan) == Mul(plan.amount, parsedRoiPercent_p001(plan))

\* x < 7 and x >= 7 of a JavaScript number: both are false of NaN
Lt(x, n) == ~IsNaN(x) /\ x < n
Ge(x, n) == ~IsNaN(x) /\ x >= n

\* lines 98-106 and 117-129; the log entry's timestamp is
\* FieldValue.serverTimestamp(), set by the server when the write is applied
investmentUpdates_p001(d, today, now) ==
    LET plan == d.activePlan
        newDaysCompleted == Add(currentDaysCompletedInPlan_p001(plan), 1)
        base == ("activePlan.daysCompleted" :> Increment(1))
                @@ ("payoutLogs" :> ArrayUnion(
                       [date |-> today, amount |-> roiAmount_p001(plan), status |-> "paid",
                        timestamp |-> now]))
    IN  IF Ge(newDaysCompleted, CYCLE_LENGTH)
        THEN IF plan.action = "restart"
             THEN ("activePlan.daysCompleted" :> Set(0))
                  @@ ("activePlan.status" :> Set("active"))
                  @@ ("activePlan.isActive" :> Set(TRUE))
                  @@ ("activePlan.action" :> Set("active"))
                  @@ base
             ELSE ("activePlan.isActive" :> Set(FALSE))
                  @@ ("activePlan.status" :> Set("completed"))
                  @@ base
        ELSE base

\* lines 109-115 and 125-134
userProfileUpdates_p001(d, today) ==
    LET plan == d.activePlan
        newDaysCompleted == Add(currentDaysCompletedInPlan_p001(plan), 1)
        base == ("walletBalance" :> Increment(roiAmount_p001(plan)))
                @@ ("currentPlanDaysCompleted" :> Set(newDaysCompleted))
                @@ ("currentPlanRoiPercentage" :> Set(parsedRoiPercent_p001(plan)))
                @@ ("lastRoiPaymentDate" :> Set(today))
                @@ ("hasActiveInvestments" :> Set(d.hasActivePlan))
    IN  IF Ge(newDaysCompleted, CYCLE_LENGTH)
        THEN IF plan.action = "restart"
             THEN ("currentPlanDaysCompleted" :> Set(0))
                  @@ ("hasActiveInvestments" :> Set(TRUE))
                  @@ base
             ELSE ("currentPlanDaysCompleted" :> Set(newDaysCompleted))
                  @@ ("currentPlanRoiPercentage" :> Set(parsedRoiPercent_p001(plan)))
                  @@ ("hasActiveInvestments" :> Set(FALSE))
                  @@ base
        ELSE base

\* lines 149-153: the status is left alone (line 151 is commented out)
correctionInvestment_p001 ==
    ("activePlan.isActive" :> Set(FALSE)) @@ ("hasActivePlan" :> Set(FALSE))

\* lines 154-157
correctionProfile_p001(d) ==
    ("hasActiveInvestments" :> Set(FALSE))
    @@ ("currentPlanDaysCompleted" :> Set(currentDaysCompletedInPlan_p001(d.activePlan)))

\* lines 43-160.  A serverTimestamp() inside an arrayUnion element is a
\* transform inside an array, which the SDK's validation of update() may refuse
\* with a throw: the payout's update is refusable.
Decide_p001(d, today, now) ==
    IF ~IsValid_p001(d) \/ ~PassesGate_p001(d)
    THEN Skipped
    ELSE IF Lt(currentDaysCompletedInPlan_p001(d.activePlan), CYCLE_LENGTH)
    THEN [Decision("pay", investmentUpdates_p001(d, today, now),
                   userProfileUpdates_p001(d, today)) EXCEPT !.refusable = TRUE]
    ELSE IF d.hasActivePlan \/ d.activePlan.isActive
    THEN Decision("correct", correctionInvestment_p001, correctionProfile_p001(d))
    ELSE Skipped

\* ------------------- src/unnamed/part_000, lines 37-138: runRoiTaskNow
\* This draft and the next read plan.daysCompleted as it is stored; the model
\* gives them stored numbers only.

\* lines 50-54
IsValid_p000(d) == d.userId # NoUser

\* lines 57-60: plan?.isActive of a missing or scalar activePlan is undefined
PassesGate_p000(d) ==
    LET plan == d.activePlan IN
    ~(  ~(plan.kind = "object" /\ plan.isActive)
     \/ plan.status # "active"
     \/ plan.action = "paused"
     \/ plan.action = "stopped")

\* plan.roiPercent || 0, as the multiplication of line 63 reads it
roiPercentOrZero(plan) ==
    LET raw == plan.roiPercent IN
    IF raw.type = "undefined" \/ (raw.type = "number" /\ (raw.val = 0 \/ IsNaN(raw.val)))
    THEN 0 ELSE raw.val

\* line 63
roiAmount_p000(plan) == Mul(plan.amount, roiPercentOrZero(plan))

\* lines 68-75 and 86-99
investmentUpdates_p000(d, today) ==
    LET plan == d.activePlan
        newDaysCompleted == Add(plan.daysCompleted.val, 1)
        base == ("activePlan.daysCompleted" :> Increment(1))
                @@ ("payoutLogs" :> ArrayUnion(
                       [date |-> today, amount |-> roiAmount_p000(plan), status |-> "paid"]))
    IN  IF Ge(newDaysCompleted, CYCLE_LENGTH)
        THEN IF plan.action = "restart"
             THEN ("activePlan.daysCompleted" :> Set(0))
                  @@ ("activePlan.status" :> Set("active"))
                  @@ ("activePlan.isActive" :> Set(TRUE))
                  @@ ("activePlan.action" :> Set("active"))
                  @@ base
             ELSE ("activePlan.isActive" :> Set(FALSE))
                  @@ ("activePlan.status" :> Set("completed"))
                  @@ base
        ELSE base

\* lines 78-84 and 95-105
userProfileUpdates_p000(d, today) ==
    LET plan == d.activePlan
        newDaysCompleted == Add(plan.daysCompleted.val, 1)
        base == ("walletBalance" :> Increment(roiAmount_p000(plan)))
                @@ ("currentPlanDaysCompleted" :> Set(newDaysCompleted))
                @@ ("currentPlanRoiPercentage" :> Set(roiPercentOrZero(plan)))
                @@ ("lastRoiPaymentDate" :> Set(today))
    IN  IF Ge(newDaysCompleted, CYCLE_LENGTH)
        THEN IF plan.action = "restart"
             THEN ("currentPlanDaysCompleted" :> Set(0)) @@ base
             ELSE ("currentPlanDaysCompleted" :> Set(newDaysCompleted))
                  @@ ("currentPlanRoiPercentage" :> Set(roiPercentOrZero(plan)))
                  @@ ("isInvestmentActive" :> Set(FALSE))
                  @@ base
        ELSE base

\* lines 119-122
correctionInvestment_p000 ==
    ("activePlan.isActive" :> Set(FALSE)) @@ ("activePlan.status" :> Set("completed"))

\* lines 124-127
correctionProfile_p000(d) ==
    ("isInvestmentActive" :> Set(FALSE))
    @@ ("currentPlanDaysCompleted" :> Set(d.activePlan.daysCompleted.val))

\* lines 44-130
Decide_p000(d, today, now) ==
    IF ~IsValid_p000(d) \/ ~PassesGate_p000(d)
    THEN Skipped
    ELSE IF Lt(d.activePlan.daysCompleted.val, CYCLE_LENGTH)
    THEN Decision("pay", investmentUpdates_p000(d, today), userProfileUpdates_p000(d, today))
    ELSE IF d.activePlan.isActive \/ d.activePlan.status = "active"
    THEN Decision("correct", correctionInvestment_p000, correctionProfile_p000(d))
    ELSE Skipped

\* ------------------ src/unnamed/part_000, lines 157-209: runRoiTaskNow
\* The oldest draft: the INVESTMENT document is the user, one update per record.

\* lines 170-173
PassesGate_cron(d) ==
    LET plan == d.activePlan IN
    ~(  ~(plan.kind = "object" /\ plan.isActive)
     \/ plan.status = Undef
     \/ plan.status # "active")

\* line 177: plan.amount * plan.roiPercent, undefined giving NaN
roiAmount_cron(plan) ==
    Mul(plan.amount, IF plan.roiPercent.type = "undefined" THEN NaN ELSE plan.roiPercent.val)

\* lines 181-195
updates_cron(d, today) ==
    LET plan == d.activePlan
        base == ("walletBal" :> Increment(roiAmount_cron(plan)))
                @@ ("activePlan.daysCompleted" :> Increment(1))
                @@ ("payoutLogs" :> ArrayUnion(
                       [date |-> today, amount |-> roiAmount_cron(plan), status |-> "paid"]))
    IN  IF Ge(Add(plan.daysCompleted.val, 1), CYCLE_LENGTH)
        THEN ("activePlan.isActive" :> Set(FALSE))
             @@ ("activePlan.status" :> Set("completed"))
             @@ base
        ELSE base

\* lines 163-203
Decide_cron(d, today, now) ==
    IF ~PassesGate_cron(d)
    THEN Skipped
    ELSE IF Lt(d.activePlan.daysCompleted.val, CYCLE_LENGTH)
    THEN [Decision("pay", updates_cron(d, today), NoUpdate) EXCEPT !.profile = FALSE]
    ELSE Skipped

\* ------------------------------------------------------------ invocations
\* The drafts share the shape of the invocation (one bulk read, a sequential
\* loop, awaited updates, one catch around everything) and differ in what they
\* decide for a record.
DecideFor(prog, d, today, now) ==
    CASE prog = "roiTask" -> Decide(d, today, now)
      [] prog = "part_001" -> Decide_p001(d, today, now)
      [] prog = "part_000" -> Decide_p000(d, today, now)
      [] prog = "part_000_cron" -> Decide_cron(d, today, now)

JobPrograms == {"roiTask", "part_001", "part_000", "part_000_cron"}
Idle(p) == pc[p] = "idle"
MayFail == failures < MaxFailures
NoDay == -1

\* line 50: await db.collection('INVESTMENT').get(); a throw lands in the catch
\* of lines 185-188 and the invocation is over
Fetch(p) ==
    /\ program \in JobPrograms
    /\ UNCHANGED dailyVars
    /\ Idle(p)
    /\ runs < budget
    /\ IF overlap THEN TRUE ELSE p = "p1" /\ \A q \in Procs : Idle(q)
    /\ runs' = runs + 1
    /\ tick' = tick + 1
    /\ previous' = [previous EXCEPT ![p] = [outcome |-> outcome[p], decided |-> decided[p]]]
    /\ \/ /\ snapshot' = [snapshot EXCEPT ![p] = INVESTMENT]
          /\ idx' = [idx EXCEPT ![p] = 1]
          /\ pc' = [pc EXCEPT ![p] = "loop"]
          /\ outcome' = [outcome EXCEPT ![p] = "running"]
          /\ decided' = [decided EXCEPT ![p] = [d \in DocIds |-> "none"]]
          /\ UNCHANGED failures
       \/ /\ MayFail
          /\ failures' = failures + 1
          /\ outcome' = [outcome EXCEPT ![p] = "failed"]
          /\ decided' = [decided EXCEPT ![p] = [d \in DocIds |-> "none"]]
          /\ UNCHANGED <<snapshot, idx, pc>>
    /\ UNCHANGED <<program, overlap, budget, INVESTMENT0, INVESTMENT, USERS, pending, day, doneDay, writes>>

\* lines 54-82: a record the loop passes over without a store call
Skip(p) ==
    /\ UNCHANGED dailyVars
    /\ pc[p] = "loop"
    /\ idx[p] <= Len(DocOrder)
    /\ LET id == DocOrder[idx[p]]
           dec == DecideFor(program, snapshot[p][id], day, tick)
       IN  /\ dec.kind = "skip"
           /\ decided' = [decided EXCEPT ![p][id] = "skip"]
    /\ idx' = [idx EXCEPT ![p] = @ + 1]
    /\ UNCHANGED <<program, overlap, budget, INVESTMENT0, INVESTMENT, USERS, pc, snapshot, pending, previous, day, tick,
                   runs, failures, outcome, doneDay, writes>>

\* the INVESTMENT update followed by a profile update that is not awaited: the
\* loop goes on to the next record with the profile update still to be made
InvestmentWrite_ProfileNotAwaited(p) ==
    /\ UNCHANGED dailyVars
    /\ pc[p] = "loop"
    /\ idx[p] <= Len(DocOrder)
    /\ tick' = tick + 1
    /\ LET id == DocOrder[idx[p]]
           dec == DecideFor(program, snapshot[p][id], day, tick)
       IN  /\ dec.kind # "skip"
           /\ decided' = [decided EXCEPT ![p][id] = dec.kind]
           /\ INVESTMENT' = [INVESTMENT EXCEPT ![id] = UpdateInvestment(@, dec.inv)]
           /\ writes' = [writes EXCEPT ![id] = @ + 1]
           /\ pending' = [pending EXCEPT ![p] = dec.usr]
           /\ pc' = [pc EXCEPT ![p] = IF idx[p] = Len(DocOrder) /\ dec.profile THEN "user" ELSE "loop"]
           /\ idx' = [idx EXCEPT ![p] = IF idx[p] = Len(DocOrder) /\ dec.profile THEN @ ELSE @ + 1]
           /\ UNCHANGED <<failures, outcome>>
    /\ UNCHANGED <<program, overlap, budget, INVESTMENT0, USERS, snapshot, previous, day, runs, doneDay>>

\* lines 106-159 and 169-174: the record is decided and
\* await investmentDocRef.update(...) is made; a throw ends the invocation
InvestmentWrite(p) ==
    /\ UNCHANGED dailyVars
    /\ pc[p] = "loop"
    /\ idx[p] <= Len(DocOrder)
    /\ tick' = tick + 1
    /\ LET id == DocOrder[idx[p]]
           dec == DecideFor(program, snapshot[p][id], day, tick)
       IN  /\ dec.kind # "skip"
           /\ decided' = [decided EXCEPT ![p][id] = dec.kind]
           /\ \/ /\ INVESTMENT' = [INVESTMENT EXCEPT ![id] = UpdateInvestment(@, dec.inv)]
                 /\ writes' = [writes EXCEPT ![id] = @ + 1]
                 /\ pending' = [pending EXCEPT ![p] = dec.usr]
                 /\ pc' = [pc EXCEPT ![p] = IF dec.profile THEN "user" ELSE "loop"]
                 /\ idx' = [idx EXCEPT ![p] = IF dec.profile THEN @ ELSE @ + 1]
                 /\ UNCHANGED <<failures, outcome>>
              \/ /\ MayFail \/ dec.refusable \/ RefusesNaN(dec.inv, "walletBal")
                 /\ failures' = IF MayFail THEN failures + 1 ELSE failures
                 /\ outcome' = [outcome EXCEPT ![p] = "failed"]
                 /\ pc' = [pc EXCEPT ![p] = "idle"]
                 /\ UNCHANGED <<INVESTMENT, writes, pending, idx>>
    /\ UNCHANGED <<program, overlap, budget, INVESTMENT0, USERS, snapshot, previous, day, runs, doneDay>>

\* the profile update after which the loop stays at the same record
UserWrite_SameRecord(p) ==
    /\ UNCHANGED dailyVars
    /\ pc[p] = "user"
    /\ tick' = tick + 1
    /\ pending' = [pending EXCEPT ![p] = NoUpdate]
    /\ LET id == DocOrder[idx[p]]
           u == snapshot[p][id].userId
       IN  /\ USERS' = [USERS EXCEPT ![u] = UpdateUser(@, pending[p])]
           /\ writes' = [writes EXCEPT ![u] = @ + 1]
           /\ pc' = [pc EXCEPT ![p] = "loop"]
           /\ UNCHANGED <<failures, outcome, idx>>
    /\ UNCHANGED <<program, overlap, budget, INVESTMENT0, INVESTMENT, snapshot, decided, previous, day, runs, doneDay>>

\* lines 160 and 175-178: await userProfileRef.update(...); a throw ends the
\* invocation with the INVESTMENT document already written
UserWrite(p) ==
    /\ UNCHANGED dailyVars
    /\ pc[p] = "user"
    /\ tick' = tick + 1
    /\ pending' = [pending EXCEPT ![p] = NoUpdate]
    /\ LET id == DocOrder[idx[p]]
           u == snapshot[p][id].userId
       IN  \/ /\ USERS' = [USERS EXCEPT ![u] = UpdateUser(@, pending[p])]
              /\ writes' = [writes EXCEPT ![u] = @ + 1]
              /\ idx' = [idx EXCEPT ![p] = @ + 1]
              /\ pc' = [pc EXCEPT ![p] = "loop"]
              /\ UNCHANGED <<failures, outcome>>
           \/ /\ MayFail \/ RefusesNaN(pending[p], "walletBalance")
              /\ failures' = IF MayFail THEN failures + 1 ELSE failures
              /\ outcome' = [outcome EXCEPT ![p] = "failed"]
              /\ pc' = [pc EXCEPT ![p] = "idle"]
              /\ UNCHANGED <<USERS, writes, idx>>
    /\ UNCHANGED <<program, overlap, budget, INVESTMENT0, INVESTMENT, snapshot, decided, previous, day, runs, doneDay>>

\* line 184: the loop has passed the last record
Finish(p) ==
    /\ UNCHANGED dailyVars
    /\ pc[p] = "loop"
    /\ idx[p] > Len(DocOrder)
    /\ pc' = [pc EXCEPT ![p] = "idle"]
    /\ outcome' = [outcome EXCEPT ![p] = "complete"]
    /\ doneDay' = day
    /\ UNCHANGED <<program, overlap, budget, INVESTMENT0, INVESTMENT, USERS, snapshot, idx, pending, decided, previous,
                   day, tick, runs, failures, writes>>

\* midnight passes between two invocations
NextDay ==
    /\ program \in JobPrograms
    /\ UNCHANGED dailyVars
    /\ \A p \in Procs : Idle(p)
    /\ day < MaxDay
    /\ day' = day + 1
    /\ tick' = tick + 1
    /\ UNCHANGED <<program, overlap, budget, INVESTMENT0, INVESTMENT, USERS, pc, snapshot, idx, pending, decided, previous,
                   runs, failures, outcome, doneDay, writes>>


\* ------------------------------------------ src/index.js: runDailyROIIncrease
\* Times are minutes; percentages are thousandths of a percent; the principal
\* (initialInvestmentAmount) is whole currency units, so that a ROI value is
\* counted in 1/100000 of a unit.  An invocation takes no time on this clock.
MAX_ROI_DAYS == 7
ONE_DAY_IN_MS == 1440
BUFFER_MS == 5
NoTime == -1
\* a stored date that is not a Firestore Timestamp (a string, say): truthy, and
\* without a toDate method
NotATimestamp == -2
MaxClock == 2880

DailyIds == {"a", "b"}

\* x || 0 of a stored number
OrZero(x) == IF IsNaN(x) THEN 0 ELSE x

\* lines 97-98: the plan is there and its dailyROI is a number
planIsUsable(plans, investmentPlanId) ==
    /\ investmentPlanId \in DOMAIN plans
    /\ plans[investmentPlanId].dailyROI.type = "number"

\* line 114: lastROIUpdateDate || roiStartDate
lastUpdateCheckDate(userData) ==
    IF userData.lastROIUpdateDate # NoTime
    THEN userData.lastROIUpdateDate ELSE userData.roiStartDate

\* the gate without the elapsed-time test
passesTimeGate_NoWindow(userData, now) == lastUpdateCheckDate(userData) # NoTime

\* lines 116-131: the record is let through by the time gate
passesTimeGate(userData, now) ==
    /\ lastUpdateCheckDate(userData) # NoTime
    /\ ~(now - lastUpdateCheckDate(userData) < ONE_DAY_IN_MS - BUFFER_MS)

\* lines 145-153: the cumulative percentage after today's addition, capped
cappedROI(currentROI, dailyROI) ==
    LET sum == currentROI + dailyROI
        maxCumulativeROIForPlan == MAX_ROI_DAYS * dailyROI
    IN  IF sum > maxCumulativeROIForPlan THEN maxCumulativeROIForPlan ELSE sum

\* lines 156-170: the update of a paid record
updateData(userData, dailyROI, now) ==
    LET currentROI == cappedROI(OrZero(userData.currentROI), dailyROI)
        roiIncreaseDayCount == OrZero(userData.roiIncreaseDayCount) + 1
        newROIValue == userData.initialInvestmentAmount * currentROI
        base == ("currentROI" :> RoundTo(currentROI, 10))
                @@ ("currentROIValue" :> RoundTo(newROIValue, 1000))
                @@ ("roiIncreaseDayCount" :> roiIncreaseDayCount)
                @@ ("lastROIUpdateDate" :> now)
    IN  IF roiIncreaseDayCount >= MAX_ROI_DAYS
        THEN ("earningStatus" :> "completed") @@ base
        ELSE base

\* lines 73-175: what the loop body adds to the batch for one user; lines
\* 108-109 call toDate() on each stored date that is truthy, a TypeError when
\* the value has no such method
DailyDecide(userData, plans, now) ==
    IF OrZero(userData.initialInvestmentAmount) <= 0
    THEN [kind |-> "skip", upd |-> NoUpdate]
    ELSE IF userData.investmentPlanId = Undef
    THEN [kind |-> "skip", upd |-> NoUpdate]
    ELSE IF ~planIsUsable(plans, userData.investmentPlanId)
    THEN [kind |-> "skip", upd |-> NoUpdate]
    ELSE IF NotATimestamp \in {userData.lastROIUpdateDate, userData.roiStartDate}
    THEN [kind |-> "throw", upd |-> NoUpdate]
    ELSE IF ~passesTimeGate(userData, now)
    THEN [kind |-> "skip", upd |-> NoUpdate]
    ELSE IF OrZero(userData.roiIncreaseDayCount) >= MAX_ROI_DAYS
    THEN IF userData.earningStatus # "completed"
         THEN [kind |-> "complete", upd |-> ("earningStatus" :> "completed")]
         ELSE [kind |-> "skip", upd |-> NoUpdate]
    ELSE [kind |-> "pay",
          upd |-> updateData(userData, plans[userData.investmentPlanId].dailyROI.val, now)]

\* batch.update(userDocRef, upd) as applied by the commit
UpdateDailyUser(doc, upd) ==
    [f \in DOMAIN doc |-> IF f \in DOMAIN upd THEN upd[f] ELSE doc[f]]

\* lines 66-175: the batch after the loop: the users with an update, each with its update
Batch(activeUsers, plans, now) ==
    LET hit == { u \in DOMAIN activeUsers :
                   DailyDecide(activeUsers[u], plans, now).kind \in {"pay", "complete"} }
    IN  [u \in hit |-> DailyDecide(activeUsers[u], plans, now).upd]

\* lines 73-175: the loop body throws at one of the fetched users
ScanThrows(activeUsers, plans, now) ==
    \E u \in DOMAIN activeUsers : DailyDecide(activeUsers[u], plans, now).kind = "throw"

NoFetch == [plans |-> <<>>, activeUsers |-> <<>>]

\* lines 44-53: await db.collection('investmentPlans').get(); no plan at all
\* returns (line 48), a throw lands in the catch of lines 185-188
FetchPlans ==
    /\ program = "index"
    /\ dpc = "idle"
    /\ runs < budget
    /\ runs' = runs + 1
    /\ \/ /\ DOMAIN investmentPlans # {}
          /\ fetched' = [NoFetch EXCEPT !.plans = investmentPlans]
          /\ dpc' = "plans"
          /\ UNCHANGED failures
       \/ /\ DOMAIN investmentPlans = {}
          /\ UNCHANGED <<fetched, dpc, failures>>
       \/ /\ MayFail
          /\ failures' = failures + 1
          /\ UNCHANGED <<fetched, dpc>>
    /\ UNCHANGED <<users, investmentPlans, clock, lastBatch>>
    /\ UNCHANGED jobVars

\* lines 57-64: await the query earningStatus == 'active'; none found returns
FetchActiveUsers ==
    /\ dpc = "plans"
    /\ LET active == { u \in DailyIds : users[u].earningStatus = "active" }
       IN  \/ /\ active # {}
              /\ fetched' = [fetched EXCEPT !.activeUsers = [u \in active |-> users[u]]]
              /\ dpc' = "scan"
              /\ UNCHANGED failures
           \/ /\ active = {}
              /\ fetched' = NoFetch
              /\ dpc' = "idle"
              /\ UNCHANGED failures
           \/ /\ MayFail
              /\ failures' = failures + 1
              /\ fetched' = NoFetch
              /\ dpc' = "idle"
    /\ UNCHANGED <<users, investmentPlans, clock, lastBatch, runs>>
    /\ UNCHANGED jobVars

\* every update written to the store as the loop reaches it, so that a throw
\* later in the loop leaves the earlier ones written
ScanAndCommit_WritesAsItGoes ==
    /\ dpc = "scan"
    /\ dpc' = "idle"
    /\ fetched' = NoFetch
    /\ LET batch == Batch(fetched.activeUsers, fetched.plans, clock)
           throws == ScanThrows(fetched.activeUsers, fetched.plans, clock)
       IN  \/ /\ DOMAIN batch # {}
              /\ users' = [u \in DailyIds |->
                             IF u \in DOMAIN batch
                             THEN UpdateDailyUser(users[u], batch[u]) ELSE users[u]]
              /\ IF throws
                 THEN /\ failures' = IF MayFail THEN failures + 1 ELSE failures
                      /\ UNCHANGED lastBatch
                 ELSE /\ lastBatch' = [at |-> clock, updates |-> batch]
                      /\ UNCHANGED failures
           \/ /\ DOMAIN batch = {}
              /\ IF throws
                 THEN /\ failures' = IF MayFail THEN failures + 1 ELSE failures
                      /\ UNCHANGED lastBatch
                 ELSE /\ lastBatch' = [at |-> clock, updates |-> batch]
                      /\ UNCHANGED failures
              /\ UNCHANGED users
    /\ UNCHANGED <<investmentPlans, clock, runs>>
    /\ UNCHANGED jobVars

\* lines 66-183: the loop fills the batch, and the batch is committed when it
\* holds an update: one atomic write of all of them, or none when it throws.
\* A throw inside the loop leaves for the catch of lines 185-188 before line 178.
ScanAndCommit ==
    /\ dpc = "scan"
    /\ dpc' = "idle"
    /\ fetched' = NoFetch
    /\ LET batch == Batch(fetched.activeUsers, fetched.plans, clock)
           throws == ScanThrows(fetched.activeUsers, fetched.plans, clock)
       IN  \/ /\ ~throws
              /\ DOMAIN batch # {}
              /\ users' = [u \in DailyIds |->
                             IF u \in DOMAIN batch
                             THEN UpdateDailyUser(users[u], batch[u]) ELSE users[u]]
              /\ lastBatch' = [at |-> clock, updates |-> batch]
              /\ UNCHANGED failures
           \/ /\ ~throws
              /\ DOMAIN batch = {}
              /\ lastBatch' = [at |-> clock, updates |-> batch]
              /\ UNCHANGED <<users, failures>>
           \/ /\ ~throws
              /\ DOMAIN batch # {}
              /\ MayFail
              /\ failures' = failures + 1
              /\ UNCHANGED <<users, lastBatch>>
           \/ /\ throws
              /\ failures' = IF MayFail THEN failures + 1 ELSE failures
              /\ UNCHANGED <<users, lastBatch>>
    /\ UNCHANGED <<investmentPlans, clock, runs>>
    /\ UNCHANGED jobVars

\* time passes between two invocations
Elapse ==
    /\ program = "index"
    /\ dpc = "idle"
    /\ \E delta \in {ONE_DAY_IN_MS - 2 * BUFFER_MS, ONE_DAY_IN_MS - BUFFER_MS, ONE_DAY_IN_MS} :
          /\ clock + delta <= MaxClock
          /\ clock' = clock + delta
    /\ UNCHANGED <<users, investmentPlans, dpc, fetched, lastBatch, runs, failures>>
    /\ UNCHANGED jobVars

\* ---------------------------------------------------------- initial states
Plan(isActive, status, action, days, amount, roi) ==
    [kind |-> "object", isActive |-> isActive, status |-> status, action |-> action,
     daysCompleted |-> days, amount |-> amount, roiPercent |-> roi]

\* an activePlan that is no map: absent ("undefined") or a scalar ("string")
NotAMap(kind) ==
    [kind |-> kind, isActive |-> FALSE, status |-> Undef, action |-> Undef,
     daysCompleted |-> Missing, amount |-> NaN, roiPercent |-> Missing]

Doc(userId, hasActivePlan, plan) ==
    [userId |-> userId, hasActivePlan |-> hasActivePlan, activePlan |-> plan,
     payoutLogs |-> <<>>, walletBal |-> 0]

Profile ==
    [walletBalance |-> 0, currentPlanDaysCompleted |-> 0, currentPlanRoiPercentage |-> 0,
     lastRoiPaymentDate |-> NoDay, hasActiveInvestments |-> TRUE, isInvestmentActive |-> TRUE]

Statuses == {"active", "completed"}
PlanActions == {Undef, "active", "restart", "paused", "stopped"}

\* every combination of the activity signals with every day count 0..8
GateDocs ==
    { Doc("u1", h, Plan(a, s, c, Num(n), 1005, Num(33))) :
        h \in BOOLEAN, a \in BOOLEAN, s \in Statuses, c \in PlanActions,
        n \in 0..(CYCLE_LENGTH + 1) }

\* active records with every stored form of daysCompleted, amount and roiPercent
NumericDocs ==
    { Doc("u1", TRUE, Plan(TRUE, "active", c, n, amt, r)) :
        c \in {Undef, "restart"},
        n \in {Num(0), Num(CYCLE_LENGTH - 1), Str(CYCLE_LENGTH - 1), Str(NaN), Missing},
        amt \in {100000, 1005, NaN},
        r \in {Num(40), Str(33), Str(NaN), Missing} }

\* records that lack the userId or the activePlan map
BrokenDocs ==
    { Doc(NoUser, TRUE, Plan(TRUE, "active", Undef, Num(0), 1005, Num(33))),
      Doc("u1", TRUE, NotAMap("undefined")),
      Doc("u1", TRUE, NotAMap("string")) }

\* the record that follows in the snapshot
SecondDocs ==
    { Doc("u1", TRUE, Plan(TRUE, "active", Undef, Num(0), 100000, Num(40))),
      Doc("u1", TRUE, Plan(TRUE, "active", Undef, Num(CYCLE_LENGTH - 1), 100000, Num(40))),
      Doc("u2", TRUE, Plan(TRUE, "active", Undef, Num(0), 100000, Num(40))) }

DailyUser(status, amount, planId, roi, count, last, start) ==
    [earningStatus |-> status, initialInvestmentAmount |-> amount,
     investmentPlanId |-> planId, currentROI |-> roi, currentROIValue |-> 0,
     roiIncreaseDayCount |-> count, lastROIUpdateDate |-> last, roiStartDate |-> start]

\* the plan catalogue: 4% a day, 1.255% a day, and a plan whose dailyROI is a string
Catalogue ==
    [basic |-> [dailyROI |-> Num(4000)], odd |-> [dailyROI |-> Num(1255)],
     text |-> [dailyROI |-> Str(4000)]]

\* users that differ in what the validation of lines 86-102 reads
ValidationUsers ==
    { DailyUser(st, amt, pl, 0, 0, NoTime, 0) :
        st \in {"active", "completed"}, amt \in {0, 1000},
        pl \in {"basic", "odd", "text", "gone", Undef} }

\* active users of a usable plan, with every position in the cycle and every
\* combination of the two dates
GateUsers ==
    { DailyUser("active", 1000, pl, roi, n, last, start) :
        pl \in {"basic", "odd"}, roi \in {0, 24000},
        n \in {0, MAX_ROI_DAYS - 2, MAX_ROI_DAYS - 1, MAX_ROI_DAYS},
        last \in {NoTime, 0}, start \in {NoTime, 0, BUFFER_MS} }

SecondDailyUsers ==
    { DailyUser("active", 1000, "basic", 0, 0, NoTime, 0),
      DailyUser("active", 1000, "odd", 0, MAX_ROI_DAYS - 1, BUFFER_MS, 0),
      DailyUser("active", 1000, "basic", 0, 0, NotATimestamp, 0) }

\* no invocation has started; the store is as its records were created
StoreAtRest ==
    /\ INVESTMENT0 = INVESTMENT
    /\ USERS = [u \in UserIds |-> Profile]
    /\ pc = [p \in Procs |-> "idle"]
    /\ snapshot = [p \in Procs |-> INVESTMENT]
    /\ idx = [p \in Procs |-> 1]
    /\ pending = [p \in Procs |-> NoUpdate]
    /\ decided = [p \in Procs |-> [d \in DocIds |-> "none"]]
    /\ previous = [p \in Procs |-> [outcome |-> "none", decided |-> [d \in DocIds |-> "none"]]]
    /\ day = 0
    /\ tick = 0
    /\ runs = 0
    /\ failures = 0
    /\ outcome = [p \in Procs |-> "none"]
    /\ doneDay = NoDay
    /\ writes = [x \in DocIds \cup UserIds |-> 0]

\* invocations one after the other, MaxRuns of them
JobAtRest ==
    /\ overlap = FALSE
    /\ budget = MaxRuns
    /\ StoreAtRest

DailyAtRest ==
    /\ clock = 0
    /\ dpc = "idle"
    /\ fetched = NoFetch
    /\ lastBatch = [at |-> NoTime, updates |-> NoUpdate]

InitJob(prog, firsts, seconds) ==
    /\ program = prog
    /\ INVESTMENT \in { [d \in DocIds |-> IF d = "d1" THEN a ELSE b] :
                          a \in firsts, b \in seconds }
    /\ JobAtRest
    /\ users = [u \in DailyIds |-> DailyUser("completed", 0, Undef, 0, 0, NoTime, NoTime)]
    /\ investmentPlans = <<>>
    /\ DailyAtRest

InitRoiTask == InitJob("roiTask", GateDocs \cup NumericDocs \cup BrokenDocs, SecondDocs)

\* the older drafts see every combination of the activity signals at the start
\* of a cycle and around its end, with stored numbers
DraftDocs ==
    { d \in GateDocs :
        d.activePlan.daysCompleted.val \in {0, CYCLE_LENGTH - 1, CYCLE_LENGTH, CYCLE_LENGTH + 1} }

\* active records whose roiPercent is a string, parseable or not, or is missing
RateDocs ==
    { Doc("u1", TRUE, Plan(TRUE, "active", Undef, Num(n), 1005, r)) :
        n \in {0, CYCLE_LENGTH - 1}, r \in {Str(33), Str(NaN), Missing} }

InitDrafts ==
    \E prog \in {"part_001", "part_000", "part_000_cron"} :
        InitJob(prog, DraftDocs \cup RateDocs, SecondDocs)

InitDaily ==
    /\ program = "index"
    /\ INVESTMENT = [d \in DocIds |-> Doc(NoUser, FALSE, NotAMap("undefined"))]
    /\ JobAtRest
    /\ users \in { [u \in DailyIds |-> IF u = "a" THEN x ELSE y] :
                     x \in ValidationUsers \cup GateUsers, y \in SecondDailyUsers }
    /\ \/ investmentPlans = Catalogue
       \/ /\ investmentPlans = <<>>
          /\ users["a"] \in { x \in GateUsers : x.roiIncreaseDayCount = 0 /\ x.currentROI = 0 }
    /\ DailyAtRest

NextJob ==
    \/ \E p \in Procs : Fetch(p)
    \/ \E p \in Procs : Skip(p)
    \/ \E p \in Procs : InvestmentWrite(p)
    \/ \E p \in Procs : UserWrite(p)
    \/ \E p \in Procs : Finish(p)
    \/ NextDay

NextDaily ==
    \/ FetchPlans
    \/ FetchActiveUsers
    \/ ScanAndCommit
    \/ Elapse

\* records in the last LiveDepth days of their cycle, the scheduler making
\* enough invocations for them to finish it whatever store calls throw
LiveDocs ==
    { Doc("u1", TRUE, Plan(TRUE, "active", c, Num(n), 1005, Num(33))) :
        c \in {Undef, "restart"},
        n \in (CYCLE_LENGTH - LiveDepth)..(CYCLE_LENGTH - 1) }
SecondLiveDocs ==
    { Doc("u1", TRUE, Plan(TRUE, "active", Undef, Num(n), 100000, Num(40))) :
        n \in {CYCLE_LENGTH - LiveDepth, CYCLE_LENGTH - 1} }

InitLive ==
    /\ program = "roiTask"
    /\ INVESTMENT \in { [d \in DocIds |-> IF d = "d1" THEN a ELSE b] :
                          a \in LiveDocs, b \in SecondLiveDocs }
    /\ overlap = FALSE
    /\ budget = LiveDepth + MaxFailures
    /\ StoreAtRest
    /\ users = [u \in DailyIds |-> DailyUser("completed", 0, Undef, 0, 0, NoTime, NoTime)]
    /\ investmentPlans = <<>>
    /\ DailyAtRest

\* src/roiTask.js, invocations one after the other
Init == InitRoiTask
Next == NextJob
Spec == Init /\ [][Next]_vars

\* src/roiTask.js with a scheduler that keeps invoking the job, and invocations
\* that run to their end
Fairness ==
    /\ WF_vars(\E p \in Procs : Fetch(p))
    /\ WF_vars(\E p \in Procs : Skip(p))
    /\ WF_vars(\E p \in Procs : InvestmentWrite(p))
    /\ WF_vars(\E p \in Procs : UserWrite(p))
    /\ WF_vars(\E p \in Procs : Finish(p))
\* the invocations alone: the calendar day plays no part in what they decide
NextLive ==
    \/ \E p \in Procs : Fetch(p)
    \/ \E p \in Procs : Skip(p)
    \/ \E p \in Procs : InvestmentWrite(p)
    \/ \E p \in Procs : UserWrite(p)
    \/ \E p \in Procs : Finish(p)
SpecLive == InitLive /\ [][NextLive]_vars /\ Fairness

\* src/roiTask.js, one record of each fate (passed over, paid, completed,
\* restarted, corrected) before a second one, invocations that run to their end
FateDocs ==
    { Doc(NoUser, TRUE, Plan(TRUE, "active", Undef, Num(0), 1005, Num(33))),
      Doc("u1", TRUE, NotAMap("undefined")),
      Doc("u1", TRUE, Plan(FALSE, "completed", Undef, Num(CYCLE_LENGTH), 1005, Num(33))),
      Doc("u1", TRUE, Plan(TRUE, "active", Undef, Num(0), 1005, Num(33))),
      Doc("u1", TRUE, Plan(TRUE, "active", Undef, Num(CYCLE_LENGTH - 1), 1005, Num(33))),
      Doc("u1", TRUE, Plan(TRUE, "active", "restart", Num(CYCLE_LENGTH - 1), 1005, Num(33))),
      Doc("u1", TRUE, Plan(TRUE, "active", Undef, Num(CYCLE_LENGTH), 1005, Num(33))),
      Doc("u1", TRUE, Plan(TRUE, "active", Undef, Num(0), NaN, Num(33))) }

InitFates == InitJob("roiTask", FateDocs, SecondDocs)
SpecFates == InitFates /\ [][NextJob]_vars /\ Fairness

\* src/roiTask.js and src/unnamed/part_001, a record on the last day of a cycle
\* that asks for a restart, and invocations enough for the restart and a whole
\* cycle after it
RestartDoc == Doc("u1", TRUE, Plan(TRUE, "active", "restart", Num(CYCLE_LENGTH - 1), 1005, Num(33)))
BesideRestartDocs ==
    { Doc("u1", FALSE, Plan(FALSE, "completed", Undef, Num(CYCLE_LENGTH), 100000, Num(40))),
      Doc("u2", TRUE, Plan(TRUE, "active", Undef, Num(CYCLE_LENGTH - 1), 100000, Num(40))) }

InitRestart ==
    /\ program \in {"roiTask", "part_001"}
    /\ INVESTMENT \in { [d \in DocIds |-> IF d = "d1" THEN RestartDoc ELSE b] :
                          b \in BesideRestartDocs }
    /\ overlap = FALSE
    /\ budget = CYCLE_LENGTH + 1
    /\ StoreAtRest
    /\ users = [u \in DailyIds |-> DailyUser("completed", 0, Undef, 0, 0, NoTime, NoTime)]
    /\ investmentPlans = <<>>
    /\ DailyAtRest
SpecRestart == InitRestart /\ [][NextJob]_vars

\* src/roiTask.js, two invocations that may overlap: the second may start while
\* the first is between two awaits
OverlapDocs ==
    { Doc("u1", TRUE, Plan(TRUE, "active", c, Num(n), 1005, Num(33))) :
        c \in {Undef, "restart"},
        n \in {0, CYCLE_LENGTH - 2, CYCLE_LENGTH - 1, CYCLE_LENGTH} }

InitOverlap ==
    /\ program = "roiTask"
    /\ INVESTMENT \in { [d \in DocIds |-> IF d = "d1" THEN a ELSE b] :
                          a \in OverlapDocs, b \in SecondDocs }
    /\ overlap = TRUE
    /\ budget = Cardinality(Procs)
    /\ StoreAtRest
    /\ users = [u \in DailyIds |-> DailyUser("completed", 0, Undef, 0, 0, NoTime, NoTime)]
    /\ investmentPlans = <<>>
    /\ DailyAtRest
SpecOverlap == InitOverlap /\ [][NextJob]_vars

\* the drafts of src/unnamed, invocations one after the other
SpecDrafts == InitDrafts /\ [][NextJob]_vars

\* src/index.js
SpecDaily == InitDaily /\ [][NextDaily]_vars

\* every draft, invocations one after the other
InitAll == InitRoiTask \/ InitDrafts \/ InitDaily
NextAll == NextJob \/ NextDaily
SpecAll == InitAll /\ [][NextAll]_vars

\* ------------------------------------------------------------------ properties
Days(d) == d.activePlan.daysCompleted
Written(id) == writes'[id] = writes[id] + 1

\* COMPLETED and ACTIVE(n) of the record's state machine
Completed(d, n) ==
    /\ Days(d) = Num(n)
    /\ d.activePlan.isActive = FALSE
    /\ d.activePlan.status = "completed"
Active(d, n) ==
    /\ Days(d) = Num(n)
    /\ d.activePlan.isActive = TRUE
    /\ d.activePlan.status = "active"

\* C1: a record that is written while its stored daysCompleted is 6 is, right
\* after that update, COMPLETED with daysCompleted = 7 unless its action is
\* 'restart', and ACTIVE with daysCompleted = 0 if it is (src/roiTask.js and
\* src/unnamed/part_001); a users record of src/index.js whose
\* roiIncreaseDayCount goes from 6 to 7 has earningStatus 'completed' in the
\* same step.
C1_BoundaryAtCycleLength ==
    [][ /\ \A id \in DocIds :
            (/\ program \in {"roiTask", "part_001"}
             /\ Written(id)
             /\ Days(INVESTMENT[id]) = Num(CYCLE_LENGTH - 1))
            => IF INVESTMENT[id].activePlan.action = "restart"
               THEN Active(INVESTMENT'[id], 0)
               ELSE Completed(INVESTMENT'[id], CYCLE_LENGTH)
        /\ \A u \in DailyIds :
            (/\ users[u].roiIncreaseDayCount = MAX_ROI_DAYS - 1
             /\ users'[u].roiIncreaseDayCount = MAX_ROI_DAYS)
            => users'[u].earningStatus = "completed"
      ]_vars

\* a record of src/roiTask.js was paid its seventh day and is COMPLETED
C1_Witness ==
    /\ program = "roiTask"
    /\ decided["p1"]["d1"] = "pay"
    /\ writes["d1"] = 1
    /\ Completed(INVESTMENT["d1"], CYCLE_LENGTH)

\* the invocation p is at record id of its snapshot
At(p, id) == idx[p] <= Len(DocOrder) /\ DocOrder[idx[p]] = id
\* the step in which p decided to pay record id and its INVESTMENT update was applied
PayStep(p, id) ==
    /\ pc[p] = "loop" /\ At(p, id)
    /\ decided'[p][id] = "pay" /\ Written(id)
\* the step in which p's USERS update for the paid record id was applied
CreditStep(p, id) ==
    /\ pc[p] = "user" /\ At(p, id)
    /\ decided[p][id] = "pay" /\ pc'[p] = "loop"
\* the record has a numeric principal P and a numeric rate r
HasPrincipalAndRate(d) ==
    /\ d.activePlan.kind = "object"
    /\ ~IsNaN(d.activePlan.amount)
    /\ d.activePlan.roiPercent.type = "number"
RoundedPayout(d) == Round2(d.activePlan.amount * d.activePlan.roiPercent.val)

\* C2: one payout step of src/roiTask.js on a record with principal P and rate
\* r credits exactly round(P * r, 2) to the profile's walletBalance, appends
\* exactly one payoutLogs entry with that amount, status 'paid' and today's
\* date, and advances a mid-cycle daysCompleted by exactly 1.
C2_PayoutArithmetic ==
    [][ \A p \in Procs, id \in DocIds :
          LET d == snapshot[p][id] IN
          /\ (PayStep(p, id) /\ HasPrincipalAndRate(d))
             => /\ Len(INVESTMENT'[id].payoutLogs) = Len(INVESTMENT[id].payoutLogs) + 1
                /\ LET e == INVESTMENT'[id].payoutLogs[Len(INVESTMENT'[id].payoutLogs)]
                   IN  e.amount = RoundedPayout(d) /\ e.status = "paid" /\ e.date = day
                /\ (Days(INVESTMENT[id]).type = "number"
                    /\ Days(INVESTMENT[id]).val < CYCLE_LENGTH - 1)
                   => Days(INVESTMENT'[id]) = Num(Days(INVESTMENT[id]).val + 1)
          /\ (CreditStep(p, id) /\ HasPrincipalAndRate(d))
             => USERS'[d.userId].walletBalance
                = USERS[d.userId].walletBalance + RoundedPayout(d)
      ]_vars

StartedInCycle(id) ==
    /\ INVESTMENT0[id].activePlan.kind = "object"
    /\ Days(INVESTMENT0[id]).type = "number"
    /\ Days(INVESTMENT0[id]).val \in 0..CYCLE_LENGTH

\* C3: a record whose stored daysCompleted started as an integer in 0..7 holds
\* a number that is at most 7 in every state, whatever invocations ended early.
C3_DaysNeverExceedCycle ==
    \A id \in DocIds :
        StartedInCycle(id)
        => Days(INVESTMENT[id]).type = "number" /\ Days(INVESTMENT[id]).val <= CYCLE_LENGTH

\* a record that started at 5 is at 7 after an invocation that ended early
C3_Witness ==
    /\ Days(INVESTMENT0["d1"]) = Num(CYCLE_LENGTH - 2)
    /\ Days(INVESTMENT["d1"]) = Num(CYCLE_LENGTH)
    /\ failures = 1

\* daysCompleted as the job reads it
DayCount(d) == currentDaysCompletedInPlan(d.activePlan)

\* C4: the stored daysCompleted of a record never decreases from one state to
\* the next, except in a restart step (the record at 6 with action 'restart'),
\* after which it is exactly 0.
C4_DaysMonotone ==
    [][ \A id \in DocIds :
          (INVESTMENT[id].activePlan.kind = "object"
           /\ DayCount(INVESTMENT'[id]) < DayCount(INVESTMENT[id]))
          => /\ DayCount(INVESTMENT[id]) = CYCLE_LENGTH - 1
             /\ INVESTMENT[id].activePlan.action = "restart"
             /\ Days(INVESTMENT'[id]) = Num(0)
      ]_vars

\* C5: once an invocation has completed on a calendar day, nothing an
\* invocation does later that day changes an INVESTMENT record or a profile.
C5_IdempotentPerDay ==
    [][ doneDay = day => (INVESTMENT' = INVESTMENT /\ USERS' = USERS) ]_vars

GateWindow == ONE_DAY_IN_MS - BUFFER_MS

\* C6: a users record whose last payout is less than 24 h minus 5 min old
\* keeps its roiIncreaseDayCount, currentROI and lastROIUpdateDate in every step.
C6_OnePayoutPerWindow ==
    [][ \A u \in DailyIds :
          (users[u].lastROIUpdateDate # NoTime
           /\ clock - users[u].lastROIUpdateDate < GateWindow)
          => /\ users'[u].roiIncreaseDayCount = users[u].roiIncreaseDayCount
             /\ users'[u].currentROI = users[u].currentROI
             /\ users'[u].lastROIUpdateDate = users[u].lastROIUpdateDate
      ]_vars

\* user a was paid by one invocation, and a later scan inside the window, which
\* paid someone else or no one, left a alone
C6_Witness ==
    /\ users["a"].lastROIUpdateDate > 0
    /\ lastBatch.at > users["a"].lastROIUpdateDate
    /\ lastBatch.at - users["a"].lastROIUpdateDate < GateWindow
    /\ users["a"].earningStatus = "active"
    /\ dpc = "idle"

\* C7: an invocation that ended because an update threw has still decided
\* every record of its snapshot.
C7_FailureIsolation ==
    \A p \in Procs :
        (Idle(p) /\ outcome[p] = "failed" /\ \E id \in DocIds : decided[p][id] # "none")
        => \A id \in DocIds : decided[p][id] # "none"

\* C8: after a pass without failure, every record that was fetched with a
\* stored daysCompleted >= 7 and activePlan.isActive = true is inactive.
C8_AutoCorrectionConverges ==
    \A p \in Procs, id \in DocIds :
        (/\ Idle(p) /\ outcome[p] = "complete"
         /\ snapshot[p][id].userId # NoUser
         /\ snapshot[p][id].activePlan.kind = "object"
         /\ Days(snapshot[p][id]).type = "number"
         /\ Days(snapshot[p][id]).val >= CYCLE_LENGTH
         /\ snapshot[p][id].activePlan.isActive)
        => INVESTMENT[id].activePlan.isActive = FALSE

Inactive(d) == d.activePlan.kind = "object" /\ d.activePlan.isActive = FALSE

\* C9: a record whose activePlan.isActive is false is not written by any step,
\* and the step in which an invocation passes over it writes nothing at all:
\* no INVESTMENT record, no profile, no log entry.
C9_InactiveFrozen ==
    [][ \A id \in DocIds :
          /\ Inactive(INVESTMENT[id])
             => INVESTMENT'[id] = INVESTMENT[id] /\ writes'[id] = writes[id]
          /\ \A p \in Procs :
               (pc[p] = "loop" /\ At(p, id) /\ Inactive(snapshot[p][id]) /\ idx'[p] # idx[p])
               => /\ INVESTMENT' = INVESTMENT /\ USERS' = USERS /\ writes' = writes
                  /\ pc'[p] = "loop" /\ decided'[p][id] = "skip"
      ]_vars

\* a complete invocation passed over the inactive first record and paid the second
C9_Witness ==
    /\ outcome["p1"] = "complete"
    /\ decided["p1"]["d1"] = "skip"
    /\ Inactive(INVESTMENT["d1"]) /\ INVESTMENT["d1"].hasActivePlan
    /\ INVESTMENT["d1"] = INVESTMENT0["d1"]
    /\ decided["p1"]["d2"] = "pay"

AllSignalsActive(d) ==
    /\ d.activePlan.kind = "object"
    /\ d.hasActivePlan
    /\ d.activePlan.isActive
    /\ d.activePlan.status = "active"
    /\ d.activePlan.action \notin {"paused", "stopped"}

\* C10: an INVESTMENT record is written only if hasActivePlan, activePlan.isActive,
\* activePlan.status = 'active' and an action other than 'paused' and 'stopped'
\* all say that it is active.
C10_ActivityGate ==
    [][ \A id \in DocIds : Written(id) => AllSignalsActive(INVESTMENT[id]) ]_vars

\* the log l is the log k with entries appended to it
IsPrefix(k, l) == Len(k) <= Len(l) /\ SubSeq(l, 1, Len(k)) = k

\* C11: in every step a record's payoutLogs keeps the entries it had, in their
\* places, and grows by exactly one entry in a step that pays the record and by
\* none in any other step, so that its length is the number of payouts applied;
\* this for every draft of runRoiTaskNow and for payouts of equal date and amount.
C11_LogCountsPayouts ==
    [][ \A id \in DocIds :
          /\ IsPrefix(INVESTMENT[id].payoutLogs, INVESTMENT'[id].payoutLogs)
          /\ Len(INVESTMENT'[id].payoutLogs)
             = Len(INVESTMENT[id].payoutLogs)
               + (IF \E p \in Procs : PayStep(p, id) THEN 1 ELSE 0)
      ]_vars

\* the record holds a log entry of the calendar day today
PaidOn(d, today) == \E i \in 1..Len(d.payoutLogs) : d.payoutLogs[i].date = today

\* the invocation p runs after one that ended through the catch of lines
\* 185-188 and that had paid the record id the same day
RetryAfterPaying(p, id) ==
    /\ previous[p].outcome = "failed"
    /\ previous[p].decided[id] = "pay"
    /\ PaidOn(INVESTMENT[id], day)

\* C12: an invocation that follows one that ended through the catch scans every
\* record again, and never pays a record that the failed invocation had paid.
C12_RetryPaysOnce ==
    [][ \A p \in Procs, id \in DocIds : RetryAfterPaying(p, id) => ~PayStep(p, id) ]_vars

\* the record lacks the userId or the activePlan map, or its principal is no number
Invalid(d) ==
    \/ d.userId = NoUser
    \/ d.activePlan.kind # "object"
    \/ IsNaN(d.activePlan.amount)

\* C13: the step in which an invocation leaves a record without userId, without
\* an activePlan map or with a non-numeric activePlan.amount writes no INVESTMENT
\* record and no profile, and the loop goes on with the next record.
C13_InvalidSkipped ==
    [][ \A p \in Procs, id \in DocIds :
          (/\ pc[p] = "loop" /\ At(p, id)
           /\ Invalid(snapshot[p][id])
           /\ <<pc[p], idx[p]>> # <<pc'[p], idx'[p]>>)
          => /\ INVESTMENT' = INVESTMENT /\ USERS' = USERS /\ writes' = writes
             /\ decided'[p][id] = "skip"
             /\ pc'[p] = "loop" /\ idx'[p] = idx[p] + 1
      ]_vars

\* the stored roiPercent is a string of which parseFloat makes no number
UnparseableRate(d) == d.activePlan.kind = "object" /\ d.activePlan.roiPercent = Str(NaN)

\* C14: in src/roiTask.js and src/unnamed/part_001, the payout of a record with
\* a numeric principal and an unparseable roiPercent appends a log entry of
\* amount 0, advances a mid-cycle daysCompleted by exactly 1 and credits
\* exactly 0 to walletBalance.
C14_UnparseableRatePaysZero ==
    [][ \A p \in Procs, id \in DocIds :
          LET d == snapshot[p][id] IN
          (program \in {"roiTask", "part_001"} /\ UnparseableRate(d) /\ ~IsNaN(d.activePlan.amount))
          => /\ PayStep(p, id)
                => /\ INVESTMENT'[id].payoutLogs[Len(INVESTMENT'[id].payoutLogs)].amount = 0
                   /\ (Days(INVESTMENT[id]).type = "number"
                       /\ Days(INVESTMENT[id]).val < CYCLE_LENGTH - 1)
                      => Days(INVESTMENT'[id]) = Num(Days(INVESTMENT[id]).val + 1)
             /\ CreditStep(p, id)
                => USERS'[d.userId].walletBalance = USERS[d.userId].walletBalance
      ]_vars

\* the drafts that have an auto-correction branch
CorrectingPrograms == {"roiTask", "part_001", "part_000"}

\* the record passes the draft's own validation and filter with a stored count of 7 or more
PastCycleThroughGate(d) ==
    /\ DecideFor(program, d, day, tick).kind # "skip"
    /\ Days(d).type = "number" /\ Days(d).val >= CYCLE_LENGTH

\* the step in which p's INVESTMENT update of the correction of record id was applied
CorrectStep(p, id) ==
    /\ pc[p] = "loop" /\ At(p, id)
    /\ decided'[p][id] = "correct" /\ Written(id)
\* the step in which p's USERS update of the correction of record id was applied
MirrorStep(p, id) ==
    /\ pc[p] = "user" /\ At(p, id)
    /\ decided[p][id] = "correct" /\ pc'[p] = "loop"

\* the profile says that the user has no active investment
ProfileInactive(prof) ==
    IF program = "part_000" THEN prof.isInvestmentActive = FALSE
    ELSE prof.hasActiveInvestments = FALSE

\* C15: in a draft with an auto-correction branch, a record that passes the
\* filter with daysCompleted >= 7 is corrected and not paid: the INVESTMENT
\* update leaves activePlan.isActive = false and activePlan.status = 'completed'
\* with daysCompleted and payoutLogs as they were, and the profile update marks
\* the profile inactive with walletBalance as it was.
C15_AutoCorrectionEffect ==
    [][ \A p \in Procs, id \in DocIds :
          LET d == snapshot[p][id] IN
          (program \in CorrectingPrograms /\ At(p, id) /\ PastCycleThroughGate(d))
          => /\ (pc[p] = "loop" /\ Written(id))
                => /\ CorrectStep(p, id)
                   /\ INVESTMENT'[id].activePlan.isActive = FALSE
                   /\ INVESTMENT'[id].activePlan.status = "completed"
                   /\ Days(INVESTMENT'[id]) = Days(INVESTMENT[id])
                   /\ INVESTMENT'[id].payoutLogs = INVESTMENT[id].payoutLogs
             /\ (pc[p] = "user" /\ pc'[p] = "loop")
                => /\ MirrorStep(p, id)
                   /\ ProfileInactive(USERS'[d.userId])
                   /\ USERS'[d.userId].walletBalance = USERS[d.userId].walletBalance
      ]_vars

\* C16: in src/roiTask.js and src/unnamed/part_001, when the profile update of
\* a paid or corrected record with an integer daysCompleted has been applied,
\* the profile's currentPlanDaysCompleted is the record's
\* activePlan.daysCompleted and its hasActiveInvestments is the record's
\* hasActivePlan.
C16_DocumentsAgree ==
    [][ \A p \in Procs, id \in DocIds :
          LET d == snapshot[p][id] IN
          (/\ program \in {"roiTask", "part_001"}
           /\ CreditStep(p, id) \/ MirrorStep(p, id)
           /\ Days(d).type = "number" /\ ~IsNaN(Days(d).val))
          => /\ Num(USERS'[d.userId].currentPlanDaysCompleted) = Days(INVESTMENT'[id])
             /\ USERS'[d.userId].hasActiveInvestments = INVESTMENT'[id].hasActivePlan
      ]_vars

\* the record was created ACTIVE (every activity signal says so) with an
\* integer daysCompleted below 7 and an action other than 'restart'
StartedActive(id) ==
    /\ INVESTMENT0[id].userId # NoUser
    /\ AllSignalsActive(INVESTMENT0[id])
    /\ INVESTMENT0[id].activePlan.action # "restart"
    /\ Days(INVESTMENT0[id]).type = "number"
    /\ Days(INVESTMENT0[id]).val \in 0..(CYCLE_LENGTH - 1)

\* k invocations have been made and each ran to its end without a throw
FailureFreeRuns(k) == runs = k /\ failures = 0 /\ \A p \in Procs : Idle(p)

Min(a, b) == IF a < b THEN a ELSE b

\* after k failure-free invocations the record that started ACTIVE(d) is
\* ACTIVE(d + k) while d + k < 7 and COMPLETED at 7 from then on, and has
\* received one payout per invocation up to its completion
ProgressAfter(id, k) ==
    LET d == Days(INVESTMENT0[id]).val IN
    /\ IF d + k < CYCLE_LENGTH
       THEN Active(INVESTMENT[id], d + k) /\ INVESTMENT[id].hasActivePlan
       ELSE Completed(INVESTMENT[id], CYCLE_LENGTH) /\ ~INVESTMENT[id].hasActivePlan
    /\ Len(INVESTMENT[id].payoutLogs) = Min(k, CYCLE_LENGTH - d)

\* C17: a record of src/roiTask.js that starts ACTIVE(d), d < 7, without
\* 'restart' is ACTIVE(d + k) after k failure-free invocations while d + k < 7,
\* is COMPLETED after 7 - d of them with exactly 7 - d payouts, and, when the
\* job keeps being invoked, is eventually COMPLETED.
C17_ProgressToCompletion ==
    /\ [](\A id \in DocIds, k \in 0..(LiveDepth + MaxFailures) :
            (StartedActive(id) /\ FailureFreeRuns(k)) => ProgressAfter(id, k))
    /\ \A id \in DocIds :
            StartedActive(id) ~> Completed(INVESTMENT[id], CYCLE_LENGTH)

\* a record that started ACTIVE(5) is COMPLETED after two failure-free
\* invocations and two payouts
C17_Witness ==
    /\ StartedActive("d1")
    /\ Days(INVESTMENT0["d1"]) = Num(CYCLE_LENGTH - 2)
    /\ FailureFreeRuns(2)
    /\ Completed(INVESTMENT["d1"], CYCLE_LENGTH)
    /\ Len(INVESTMENT["d1"].payoutLogs) = 2

\* the step takes the record's stored count from 7 or less to more than 7
LeavesCycle(id) ==
    /\ Days(INVESTMENT[id]).type = "number" /\ Days(INVESTMENT'[id]).type = "number"
    /\ Days(INVESTMENT[id]).val <= CYCLE_LENGTH
    /\ Days(INVESTMENT'[id]).val > CYCLE_LENGTH

\* p decided on a count below 7 that it read at its fetch, and the store has
\* moved on since
StaleDecision(p, id) ==
    /\ Days(snapshot[p][id]).val < CYCLE_LENGTH
    /\ Days(snapshot[p][id]).val < Days(INVESTMENT[id]).val

\* C18: with invocations of src/roiTask.js that overlap, a record that started
\* with a count in 0..7 is taken beyond 7 only by the payout of an invocation
\* whose decision used the count read at its fetch while the store-side
\* increment is applied to a count that another invocation has advanced since;
\* such a step is reachable from two invocations that fetched the same snapshot.
C18_OverlapBreaksCycleBound ==
    [][ \A id \in DocIds :
          (StartedInCycle(id) /\ LeavesCycle(id))
          => \E p \in Procs : PayStep(p, id) /\ StaleDecision(p, id)
      ]_vars

\* two invocations fetched the record ACTIVE at 6, both paid it, and it is at 8
C18_Witness ==
    /\ overlap
    /\ AllSignalsActive(INVESTMENT0["d1"])
    /\ Days(INVESTMENT0["d1"]) = Num(CYCLE_LENGTH - 1)
    /\ \A p \in Procs : snapshot[p]["d1"] = INVESTMENT0["d1"] /\ decided[p]["d1"] = "pay"
    /\ Days(INVESTMENT["d1"]).val > CYCLE_LENGTH

\* the place of the record id in snapshot.docs
Pos(id) == CHOOSE i \in 1..Len(DocOrder) : DocOrder[i] = id

\* the step applies an update of p to the INVESTMENT record id
InvestmentStep(p, id) == pc[p] = "loop" /\ At(p, id) /\ Written(id)
\* the step applies an update of p to the profile linked to the record id
ProfileStep(p, id) ==
    /\ pc[p] = "user" /\ At(p, id)
    /\ writes'[snapshot[p][id].userId] = writes[snapshot[p][id].userId] + 1

\* C19: within an invocation of src/roiTask.js the writes are a strict
\* sequence: an INVESTMENT record is written only by the invocation that is at
\* that record, with no profile update outstanding, every earlier record of
\* the snapshot decided and no later one touched, and the loop then waits for
\* the profile update of the same record; a profile is written only as that
\* awaited update, after which the loop moves to the next record.
C19_WritesInSequence ==
    [][ /\ \A id \in DocIds :
            (INVESTMENT'[id] # INVESTMENT[id] \/ writes'[id] # writes[id])
            => \E p \in Procs :
                 /\ InvestmentStep(p, id)
                 /\ pending[p] = NoUpdate
                 /\ \A j \in DocIds : (Pos(j) < Pos(id)) <=> (decided[p][j] # "none")
                 /\ \A j \in DocIds \ {id} : INVESTMENT'[j] = INVESTMENT[j]
                 /\ USERS' = USERS
                 /\ pc'[p] = "user" /\ idx'[p] = idx[p] /\ pending'[p] # NoUpdate
        /\ (USERS' # USERS \/ \E u \in UserIds : writes'[u] # writes[u])
            => \E p \in Procs, id \in DocIds :
                 /\ ProfileStep(p, id)
                 /\ decided[p][id] \in {"pay", "correct"}
                 /\ writes[id] > 0
                 /\ INVESTMENT' = INVESTMENT
                 /\ pc'[p] = "loop" /\ idx'[p] = idx[p] + 1 /\ pending'[p] = NoUpdate
      ]_vars

\* the invocation has written the first record and its profile and then the
\* second record, whose profile update it now awaits
C19_Witness ==
    /\ pc["p1"] = "user" /\ At("p1", "d2")
    /\ writes["d1"] = 1 /\ writes["d2"] = 1
    /\ writes[snapshot["p1"]["d1"].userId] = 1
    /\ snapshot["p1"]["d1"].userId = snapshot["p1"]["d2"].userId
    /\ pending["p1"] # NoUpdate

\* the later of lastROIUpdateDate and roiStartDate, NoTime when the record has neither
LaterDate(userData) ==
    IF userData.lastROIUpdateDate > userData.roiStartDate
    THEN userData.lastROIUpdateDate ELSE userData.roiStartDate

\* C20: a users record of src/index.js is left as it is by every step taken
\* while less than 24 h minus 5 min have elapsed since the later of its
\* lastROIUpdateDate and its roiStartDate, and no update for it is in the batch.
C20_GateFromLaterDate ==
    [][ \A u \in DailyIds :
          (LaterDate(users[u]) # NoTime /\ clock - LaterDate(users[u]) < GateWindow)
          => /\ users'[u] = users[u]
             /\ lastBatch' # lastBatch => u \notin DOMAIN lastBatch'.updates
      ]_vars

\* the step commits a payout of src/index.js to the users record u
DailyPayStep(u) ==
    /\ dpc = "scan"
    /\ users[u].earningStatus = "active"
    /\ users'[u].roiIncreaseDayCount = users[u].roiIncreaseDayCount + 1

\* C21: a payout of src/index.js never lowers the stored currentROI of an
\* active users record, whatever currentROI was stored and whatever the plan's
\* numeric dailyROI is.
C21_CumulativeROIMonotone ==
    [][ \A u \in DailyIds :
          DailyPayStep(u) => users'[u].currentROI >= users[u].currentROI ]_vars

\* the step in which the loop of p leaves the record id, or the invocation ends at it
LeavesRecord(p, id) ==
    /\ pc[p] = "loop" /\ At(p, id)
    /\ <<pc'[p], idx'[p]>> # <<pc[p], idx[p]>>

\* C22: an invocation of src/roiTask.js reads the collection once, when it
\* starts; it decides the records of that snapshot one after the other, each
\* one once; it ends after the last record is decided or through the catch,
\* in both cases by returning; and every invocation that has started ends.
C22_RunsOnceThrough ==
    /\ [][ \A p \in Procs :
              /\ snapshot'[p] # snapshot[p] => Idle(p)
              /\ idx'[p] # idx[p] => idx'[p] = idx[p] + 1 \/ (Idle(p) /\ idx'[p] = 1)
              /\ \A id \in DocIds :
                    /\ LeavesRecord(p, id)
                       => decided[p][id] = "none" /\ decided'[p][id] # "none"
                    /\ decided'[p][id] # decided[p][id]
                       => LeavesRecord(p, id) \/ (Idle(p) /\ decided'[p][id] = "none")
              /\ (~Idle(p) /\ pc'[p] = "idle")
                 => \/ outcome'[p] = "failed"
                    \/ /\ outcome'[p] = "complete"
                       /\ \A id \in DocIds : decided[p][id] # "none"
          ]_vars
    /\ \A p \in Procs : (~Idle(p)) ~> Idle(p)

\* an invocation has ended after correcting the first record and paying the second
C22_Witness ==
    /\ Idle("p1") /\ outcome["p1"] = "complete"
    /\ decided["p1"]["d1"] = "correct"
    /\ decided["p1"]["d2"] = "pay"
    /\ writes["d1"] = 1 /\ writes["d2"] = 1

\* the record was created on the last day of a cycle with action 'restart'
StartedWithRestart(id) == INVESTMENT0[id] = RestartDoc

\* the record as the restart step leaves it: a new cycle at 0, no restart asked
Restarted(d, n) == Active(d, n) /\ d.hasActivePlan /\ d.activePlan.action = "active"

\* C23: in src/roiTask.js and src/unnamed/part_001, the restart step sets
\* activePlan.action to 'active' and no step sets it to 'restart', so that the
\* record that restarted is paid by the very next invocation that reaches it,
\* is ACTIVE(k - 1) after k payouts in all, and after the restart and 7 further
\* payouts is COMPLETED and is paid no more.
C23_RestartOnce ==
    /\ [](\A id \in DocIds :
            StartedWithRestart(id)
            => LET k == Len(INVESTMENT[id].payoutLogs) IN
               /\ k <= CYCLE_LENGTH + 1
               /\ k = 0 => INVESTMENT[id] = RestartDoc
               /\ k \in 1..CYCLE_LENGTH => Restarted(INVESTMENT[id], k - 1)
               /\ k = CYCLE_LENGTH + 1 => Completed(INVESTMENT[id], CYCLE_LENGTH))
    /\ [][ \A id \in DocIds :
              /\ INVESTMENT'[id].activePlan.action = "restart"
                 => INVESTMENT[id].activePlan.action = "restart"
              /\ \A p \in Procs :
                    (LeavesRecord(p, id) /\ Restarted(snapshot[p][id], 0) /\ pc'[p] # "idle")
                    => PayStep(p, id) /\ Restarted(INVESTMENT'[id], 1)
          ]_vars

\* the record restarted, was paid 7 more times and is COMPLETED
C23_Witness ==
    /\ StartedWithRestart("d1")
    /\ Len(INVESTMENT["d1"].payoutLogs) = CYCLE_LENGTH + 1
    /\ Completed(INVESTMENT["d1"], CYCLE_LENGTH)
    /\ INVESTMENT["d1"].activePlan.action = "active"

\* the sum of the amounts of the entries of a payout log
RECURSIVE LogTotal(_)
LogTotal(log) ==
    IF log = <<>> THEN 0 ELSE Add(log[1].amount, LogTotal(Tail(log)))

\* the sum of the amounts logged on the INVESTMENT records of the user u
RECURSIVE LoggedFor(_, _)
LoggedFor(u, ids) ==
    IF ids = {} THEN 0
    ELSE LET id == CHOOSE x \in ids : TRUE
         IN  Add(IF INVESTMENT[id].userId = u THEN LogTotal(INVESTMENT[id].payoutLogs) ELSE 0,
                 LoggedFor(u, ids \ {id}))

\* no invocation is running and no store call has thrown
AtRestWithoutFailure ==
    /\ failures = 0
    /\ \A p \in Procs : Idle(p) /\ outcome[p] # "failed" /\ previous[p].outcome # "failed"

\* C24: between invocations of a draft that credits the USERS profile, when no
\* store call has thrown, what the job has added to a user's walletBalance is the
\* sum of the amounts of the payoutLogs entries of that user's INVESTMENT records.
C24_WalletMatchesLog ==
    (program \in {"roiTask", "part_001", "part_000"} /\ AtRestWithoutFailure)
    => \A u \in UserIds : USERS[u].walletBalance = LoggedFor(u, DocIds)

\* the users collection after every update of the batch has been applied
Committed(batch) ==
    [u \in DailyIds |->
       IF u \in DOMAIN batch THEN UpdateDailyUser(users[u], batch[u]) ELSE users[u]]

\* C25: runDailyROIIncrease of src/index.js changes a users record only in the
\* step that ends the scan of the fetched users; when the scan throws no record
\* changes; when the batch is empty no record changes and no commit is there to
\* fail; otherwise the records are either all as before or all as the batch
\* updates them, and they are all updated unless the commit throws.
C25_AllOrNothingBatch ==
    [][ /\ users' # users => (dpc = "scan" /\ dpc' = "idle")
        /\ (dpc = "scan" /\ dpc' = "idle")
           => LET batch == Batch(fetched.activeUsers, fetched.plans, clock)
                  throws == ScanThrows(fetched.activeUsers, fetched.plans, clock)
              IN  /\ throws => (users' = users /\ lastBatch' = lastBatch)
                  /\ (~throws /\ DOMAIN batch = {})
                     => (users' = users /\ failures' = failures)
                  /\ users' \in {users, Committed(batch)}
                  /\ (~throws /\ failures' = failures) => users' = Committed(batch)
      ]_vars

\* one invocation lost its whole batch to a throw of the commit, and a later
\* one has committed the updates of both users together
C25_Witness ==
    /\ dpc = "idle"
    /\ failures > 0
    /\ DOMAIN lastBatch.updates = DailyIds
    /\ \A u \in DailyIds :
          \A f \in DOMAIN lastBatch.updates[u] : users[u][f] = lastBatch.updates[u][f]
    /\ \E u \in DailyIds : users[u].lastROIUpdateDate = lastBatch.at

\* some INVESTMENT record of user u has hasActivePlan = true
HasActiveRecord(u) ==
    \E d \in DocIds : INVESTMENT[d].userId = u /\ INVESTMENT[d].hasActivePlan = TRUE

\* the first invocation has ended without a throw and has written a record of user u
WrittenForUser(u) ==
    /\ FailureFreeRuns(1)
    /\ \E p \in Procs : outcome[p] = "complete"
    /\ \E d \in DocIds : INVESTMENT[d].userId = u /\ writes[d] = 1

\* C26: after an invocation of runRoiTaskNow of src/roiTask.js in which no
\* store call has thrown, every user of whom it has written an INVESTMENT
\* record has hasActiveInvestments = true in USERS exactly when one of the
\* user's INVESTMENT records has hasActivePlan = true.
C26_ProfileFlagOverAllRecords ==
    program = "roiTask"
    => \A u \in UserIds :
         WrittenForUser(u) => (USERS[u].hasActiveInvestments = TRUE <=> HasActiveRecord(u))
====
